---- MODULE Spec2Model ----
(***************************************************************************)
(* Model of the table-extraction pipeline of pipeline.py:                  *)
(*   - merge_split_tables (the stitcher), and a                             *)
(*     second call of it on a table it returned   specification SpecStitch  *)
(*   - run_ocr / ocr_worker (two-tier OCR)        specification SpecOcr     *)
(*   - process_document from construction to                                *)
(*     tables.json: the stage calls, gemini_refine                          *)
(*     and the assembling loop                    specification SpecDoc     *)
(* Python's 0-based bbox[1] / bbox[3] are the 2nd / 4th entries of the      *)
(* 4-tuples used here.                                                      *)
(***************************************************************************)
EXTENDS Integers, Sequences, FiniteSets, TLC

\* ------------------------------------------------------------------ bounds
\* fragments handed to merge_split_tables
MaxFrags == 3
\* rows of one fragment
MaxRows == 3
\* rows of all fragments of one document together
MaxDocRows == 5
\* page images handed to run_ocr
MaxImages == 4
\* merged tables handed to the loop of process_document
MaxTables == 2
\* process_document calls on one pipeline object
MaxCalls == 2
\* calls of the Gemini scripts' functions in one run of a script
MaxGeminiCalls == 2
\* pages of a PDF given to the pdfplumber / camelot extractors
MaxPdfPages == 2
\* tables the extractor library finds on one page
MaxPageTables == 2
\* data rows of one extracted table
MaxTableRows == 2

\* the None of current_table: a table made of no fragment
None == [page |-> 0 - 1, bbox |-> <<>>, rows |-> <<>>, cells |-> <<>>, frags |-> <<>>]

\* ------------------------------------------------- stitcher: the input space
\* columns of every fragment (col_id 0 .. NumCols-1)
ColIds == {0, 1}

\* (first-row top, last-row bottom) of a fragment, in page coordinates
FragBoxes == {<<40, 100>>, <<120, 200>>, <<130, 200>>, <<150, 200>>}

TextBetween125 == [label |-> "Text", bbox |-> <<0, 105, 100, 125>>]
TextBetween115 == [label |-> "Text", bbox |-> <<0, 105, 100, 115>>]
TableBetween125 == [label |-> "Table", bbox |-> <<0, 105, 100, 125>>]

\* the pages of a document (0-based, as enumerate numbers them)
PageIds == {0, 1}

\* what the layout detector may report for one page: {"bboxes": [...]}
LayoutChoices ==
    {{}, {TextBetween125}, {TextBetween115, TableBetween125}, {TableBetween125}}

\* bbox of row i of n rows dividing top..bottom
RowBox(top, bottom, i, n) ==
    <<0, top + ((i - 1) * (bottom - top)) \div n, 100, top + (i * (bottom - top)) \div n>>

\* the cells of a fragment of n rows: row-major, row_id and col_id dense from 0
FragCells(n) ==
    [k \in 1..(n * Cardinality(ColIds)) |->
        [row_id |-> (k - 1) \div Cardinality(ColIds),
         col_id |-> (k - 1) % Cardinality(ColIds)]]

\* one entry of table_pred["tables"]: the k-th fragment of the document, on
\* page p (0-based), n rows in box.  frags is history: the fragments a table
\* is made of.
Fragment(k, p, n, box) ==
    [page  |-> p,
     bbox  |-> <<0, box[1], 100, box[2]>>,
     rows  |-> [i \in 1..n |-> RowBox(box[1], box[2], i, n)],
     cells |-> FragCells(n),
     frags |-> <<k>>]

VARIABLES
    st_pc,              \* merge_split_tables: "idle", "loop", "done", "raised"
    layout_predictions, \* the layout of each page the loop has reached
    table_predictions,  \* per reached page, the fragments iterated so far
    current_table,      \* the open accumulator, or None
    merged_tables,      \* the closed tables; the return value once "done"
    restitch_input      \* the MergedTable a second call of merge_split_tables is
                        \*   given as its only table; None during the first call

stitchVars == <<st_pc, layout_predictions, table_predictions, current_table, merged_tables,
                restitch_input>>

VARIABLES
    ocr_pc,             \* run_ocr: "idle", "loop", "pool", "done", "raised"
    images,             \* len(images): the pages are 1..images
    idx,                \* the page the for loop of line 103 is at
    use_cpu,            \* the flag of line 101
    ocr_predictions,    \* the list returned at line 148
    image_langs,        \* the pages handed to pool.map (line 135)
    results,            \* pool.map's result list; "pending" while a worker runs
    skipped,            \* the number of skipped pages the warning of line 143 reports
    pools_started,      \* history: Pool(...) constructions
    gpu_calls,          \* history: per page, attempts on the GPU predictors
    cpu_calls,          \* history: per page, runs of ocr_worker
    oom_page,           \* history: the page on which OutOfMemoryError was raised, or 0
    cpu_cores,          \* cpu_count() of the machine
    pool_processes,     \* the worker processes the Pool of line 130 started, 0 if none
    announced_cores     \* the number of cores the message of line 129 names, 0 if none

ocrVars == <<ocr_pc, images, idx, use_cpu, ocr_predictions, image_langs, results,
             skipped, pools_started, gpu_calls, cpu_calls, oom_page,
             cpu_cores, pool_processes, announced_cores>>

VARIABLES
    doc_pc,             \* process_document: "idle", "start", "layout", "tables", "ocr",
                        \*   "merge", "loop", "assemble", "written", "raised"
    table_idx,          \* the table the loop of line 230 is at (0-based)
    response,           \* what requests.post got for the current table
    refined_table,      \* what gemini_refine returned (line 241)
    refine_exc,         \* the exception gemini_refine let through, or ""
    fell_back,          \* history: gemini_refine took the except branch
    output_tables,      \* the list of table_json built so far
    tables_json,        \* what the call under way wrote to tables.json, <<>> before
    ocr_text,           \* the ocr_text argument of the last gemini_refine call
    resident,           \* the predictors the pipeline object holds (lines 60-63)
    reports,            \* what the closing message of line 271 reports, <<>> before
    stages_run,         \* history: the stages the call under way has started
    fallbacks,          \* history: gemini_refine calls that took the except branch
    calls,              \* history: process_document calls started on the object
    completed           \* history: process_document calls that returned

docVars == <<doc_pc, table_idx, response, refined_table, refine_exc, fell_back,
             output_tables, tables_json, ocr_text, resident, reports, stages_run,
             fallbacks, calls, completed>>

VARIABLES
    gem_pc,             \* the Gemini function under way: "idle", "check", "upload",
                        \*   "generate", "validate", "parse", "handler", "finally", "done"
    gem_fn,             \* which of the four functions is called
    pdf_is_file,        \* Path(pdf_path).is_file()
    uploaded_file,      \* the name genai.upload_file returned, 0 while unbound
    gem_response,       \* what model.generate_content returned
    pending,            \* the exception on its way out of the try block, or ""
    gem_outcome,        \* how the call ended: "returned", an exception name, "" before
    api_calls,          \* history: the genai calls this call of the function made
    file_api,           \* the names of the files the Gemini File API holds
    gem_calls           \* history: calls of the functions so far

geminiVars == <<gem_pc, gem_fn, pdf_is_file, uploaded_file, gem_response, pending,
                gem_outcome, api_calls, file_api, gem_calls>>

VARIABLES
    ex_pc,              \* extract_table_from_pdf: "idle", "page", "table", "returned"
    extractor,          \* "pdfplumber" (using_pdfplumber.py) or "camelot" (using_camelot.py)
    num_pages,          \* the pages of the PDF
    page_num,           \* the page the loop is at, 0 before the first
    page_tables,        \* how many tables the library found on that page
    table_no,           \* how many of them the loop has been through
    all_tables,         \* the list of {"page", "table"} built so far
    serial_numbers,     \* the digits found under 'S.No' / 'Serial'
    has_single_table,
    returned,           \* what the function returned
    built               \* history: every row_dict built, in the order built

extractVars == <<ex_pc, extractor, num_pages, page_num, page_tables, table_no,
                 all_tables, serial_numbers, has_single_table, returned, built>>

\* the state of the stand-alone scripts
scriptVars == <<geminiVars, extractVars>>

notGemini == <<stitchVars, ocrVars, docVars, extractVars>>
notExtract == <<stitchVars, ocrVars, docVars, geminiVars>>

vars == <<stitchVars, ocrVars, docVars, scriptVars>>

\* what merge_split_tables, run_ocr and the loop of process_document leave alone
notStitch == <<ocrVars, docVars, scriptVars>>
notOcr == <<stitchVars, docVars, scriptVars>>
notDoc == <<st_pc, layout_predictions, table_predictions, current_table, restitch_input,
            ocrVars>>

\* no response object bound yet
NoGeminiResponse == [candidates |-> FALSE, parts |-> FALSE, json |-> FALSE, bound |-> FALSE]

GeminiIdle ==
    /\ gem_pc = "idle"
    /\ gem_fn = ""
    /\ pdf_is_file = FALSE
    /\ uploaded_file = 0
    /\ gem_response = NoGeminiResponse
    /\ pending = ""
    /\ gem_outcome = ""
    /\ api_calls = <<>>
    /\ file_api = {}
    /\ gem_calls = 0

\* nothing returned yet
NoReturn == [flat |-> FALSE, rows |-> <<>>, tables |-> <<>>]

ExtractIdle ==
    /\ ex_pc = "idle"
    /\ extractor = ""
    /\ num_pages = 0
    /\ page_num = 0
    /\ page_tables = 0
    /\ table_no = 0
    /\ all_tables = <<>>
    /\ serial_numbers = <<>>
    /\ has_single_table = TRUE
    /\ returned = NoReturn
    /\ built = <<>>

ScriptsIdle == GeminiIdle /\ ExtractIdle

OcrIdle ==
    /\ ocr_pc = "idle"
    /\ images = 0
    /\ idx = 0
    /\ use_cpu = FALSE
    /\ ocr_predictions = <<>>
    /\ image_langs = <<>>
    /\ results = <<>>
    /\ skipped = 0
    /\ pools_started = 0
    /\ gpu_calls = <<>>
    /\ cpu_calls = <<>>
    /\ oom_page = 0
    /\ cpu_cores = 1
    /\ pool_processes = 0
    /\ announced_cores = 0

\* no reply received
NoResponse == [transport |-> "none", status |-> 0, body |-> <<>>]

\* lines 60-63: the predictors __init__ constructs
LoadedAtInit ==
    {"layout_predictor", "table_rec_predictor", "det_predictor_gpu", "rec_predictor_gpu"}

DocIdle ==
    /\ doc_pc = "idle"
    /\ table_idx = 0
    /\ response = NoResponse
    /\ refined_table = None
    /\ refine_exc = ""
    /\ fell_back = FALSE
    /\ output_tables = <<>>
    /\ tables_json = <<>>
    /\ ocr_text = ""
    /\ resident = LoadedAtInit
    /\ reports = <<>>
    /\ stages_run = <<>>
    /\ fallbacks = 0
    /\ calls = 0
    /\ completed = 0

StitchIdle ==
    /\ st_pc = "idle"
    /\ layout_predictions = <<>>
    /\ table_predictions = <<>>
    /\ current_table = None
    /\ merged_tables = <<>>
    /\ restitch_input = None

\* ------------------------------------------------------ stitcher: helpers
RECURSIVE Flatten(_)
Flatten(ss) == IF ss = <<>> THEN <<>> ELSE Head(ss) \o Flatten(Tail(ss))

\* every fragment iterated so far, in iteration order
AllFrags == Flatten(table_predictions)

RECURSIVE SumRows(_)
SumRows(fs) == IF fs = <<>> THEN 0 ELSE Len(Head(fs).rows) + SumRows(Tail(fs))

\* rows of the fragments iterated so far
RowsSeen == SumRows(AllFrags)

\* max(cell["row_id"] for cell in cells); defined for a non-empty list
MaxRowId(cells) ==
    CHOOSE m \in {cells[i].row_id : i \in 1..Len(cells)} :
        \A i \in 1..Len(cells) : cells[i].row_id <= m

\* first_row_bbox[1] - last_row_bbox[3]
Gap(acc, cand) == cand.rows[1][2] - acc.rows[Len(acc.rows)][4]

\* layout_bboxes: the non-Table boxes of the page being iterated
LayoutBboxes(layout_pred) == {r.bbox : r \in {q \in layout_pred : q.label # "Table"}}

\* the test taking the two edges in either order
InterveningEitherOrder(acc, cand, layout_pred) ==
    \E bbox \in LayoutBboxes(layout_pred) :
        \/ /\ bbox[2] > acc.rows[Len(acc.rows)][4]
           /\ bbox[4] < cand.rows[1][2]
        \/ /\ bbox[2] > cand.rows[1][2]
           /\ bbox[4] < acc.rows[Len(acc.rows)][4]

\* any(bbox[1] > last_row_bbox[3] and bbox[3] < first_row_bbox[1] ...)
Intervening(acc, cand, layout_pred) ==
    \E bbox \in LayoutBboxes(layout_pred) :
        /\ bbox[2] > acc.rows[Len(acc.rows)][4]
        /\ bbox[4] < cand.rows[1][2]

\* the condition with <= 50 in place of < 50
ShouldMergeLe(acc, cand, layout_pred) ==
    /\ Gap(acc, cand) <= 50
    /\ ~Intervening(acc, cand, layout_pred)

\* the condition of the if at lines 200-201
ShouldMerge(acc, cand, layout_pred) ==
    /\ Gap(acc, cand) < 50
    /\ ~Intervening(acc, cand, layout_pred)

\* the offset without the + 1
RowOffsetNoPlusOne(acc, cand) == MaxRowId(acc.cells \o cand.cells)

\* max_row_id + 1, max_row_id taken after the candidate's cells were appended
RowOffset(acc, cand) == MaxRowId(acc.cells \o cand.cells) + 1

\* the += lost, as if the appended cells were copies
ShiftRowsNone(cells, off) == cells

\* line 205-206: cell["row_id"] += max_row_id + 1 for the candidate's cells
ShiftRows(cells, off) ==
    [i \in 1..Len(cells) |-> [cells[i] EXCEPT !.row_id = cells[i].row_id + off]]

\* the accumulator's box stretched down to the merged fragment's lower
\* right corner
MergeIntoStretchedBox(acc, cand) ==
    [acc EXCEPT !.rows  = acc.rows \o cand.rows,
                !.cells = acc.cells \o ShiftRows(cand.cells, RowOffset(acc, cand)),
                !.frags = acc.frags \o cand.frags,
                !.bbox  = <<acc.bbox[1], acc.bbox[2], cand.bbox[3], cand.bbox[4]>>]

\* lines 202-206: the appended cell objects are the candidate's own, so the
\* += of line 206 shows in the accumulator's list
MergeInto(acc, cand) ==
    [acc EXCEPT !.rows  = acc.rows \o cand.rows,
                !.cells = acc.cells \o ShiftRows(cand.cells, RowOffset(acc, cand)),
                !.frags = acc.frags \o cand.frags]

\* ------------------------------------------------------ stitcher: actions
InitStitch ==
    /\ st_pc = "loop"
    /\ layout_predictions = <<>>
    /\ table_predictions = <<>>
    /\ current_table = None
    /\ merged_tables = <<>>
    /\ restitch_input = None
    /\ OcrIdle
    /\ DocIdle
    /\ ScriptsIdle

\* the pages of the call's input: those of the document, or the one page
\* holding the MergedTable of a second call
PagesOfCall == IF restitch_input = None THEN Cardinality(PageIds) ELSE 1

\* line 189: the outer loop reaches the next page
NextPage ==
    /\ st_pc = "loop"
    /\ Len(layout_predictions) < PagesOfCall
    /\ \E layout_pred \in LayoutChoices :
          layout_predictions' = Append(layout_predictions, layout_pred)
    /\ table_predictions' = Append(table_predictions, <<>>)
    /\ UNCHANGED <<st_pc, current_table, merged_tables, restitch_input>>
    /\ UNCHANGED notStitch

\* the fragments the table detector may report as the k-th of the document,
\* on page p (0-based); a fragment without rows has no geometry to vary
FragChoices(k, p) ==
    {Fragment(k, p, 0, <<40, 100>>)}
        \cup {Fragment(k, p, n, box) :
                 n \in {m \in 1..MaxRows : RowsSeen + m <= MaxDocRows}, box \in FragBoxes}

\* the tables the input may hold next: fragments as the detector reports
\* them, or the one MergedTable of a second call and nothing after it
TablesOfCall(k, p) ==
    IF restitch_input = None
    THEN IF k <= MaxFrags THEN FragChoices(k, p) ELSE {}
    ELSE IF k = 1 THEN {restitch_input} ELSE {}

\* lines 192-209: the inner loop body for the next table of the current page
NextTable ==
    /\ st_pc = "loop"
    /\ Len(layout_predictions) >= 1
    /\ \E table \in TablesOfCall(Len(AllFrags) + 1, Len(layout_predictions) - 1) :
          /\ table_predictions' =
                [table_predictions EXCEPT ![Len(layout_predictions)] = Append(@, table)]
          /\ IF current_table = None
             THEN /\ current_table' = table
                  /\ UNCHANGED <<st_pc, merged_tables>>
             ELSE IF Len(current_table.rows) = 0 \/ Len(table.rows) = 0
             THEN \* rows[-1] / rows[0] of an empty list: IndexError
                  /\ st_pc' = "raised"
                  /\ UNCHANGED <<current_table, merged_tables>>
             ELSE IF ShouldMerge(current_table, table,
                                 layout_predictions[Len(layout_predictions)])
             THEN IF Len(current_table.cells \o table.cells) = 0
                  THEN \* max() of an empty sequence: ValueError
                       /\ st_pc' = "raised"
                       /\ UNCHANGED <<current_table, merged_tables>>
                  ELSE /\ current_table' = MergeInto(current_table, table)
                       /\ UNCHANGED <<st_pc, merged_tables>>
             ELSE /\ merged_tables' = Append(merged_tables, current_table)
                  /\ current_table' = table
                  /\ UNCHANGED st_pc
    /\ UNCHANGED <<layout_predictions, restitch_input>>
    /\ UNCHANGED notStitch

\* the open accumulator lost at the end of the loop
FinalTablesClosedOnly(merged, current) == merged

\* lines 211-212: if current_table: merged_tables.append(current_table)
FinalTables(merged, current) ==
    IF current # None THEN Append(merged, current) ELSE merged

\* lines 211-215: the input is exhausted
ReturnMerged ==
    /\ st_pc = "loop"
    /\ merged_tables' = FinalTables(merged_tables, current_table)
    /\ st_pc' = "done"
    /\ UNCHANGED <<layout_predictions, table_predictions, current_table, restitch_input>>
    /\ UNCHANGED notStitch

\* lines 183-187: merge_split_tables is called again, its input one page
\* whose only table is a MergedTable the first call returned
Restitch ==
    /\ st_pc = "done"
    /\ restitch_input = None
    /\ \E k \in 1..Len(merged_tables) : restitch_input' = merged_tables[k]
    /\ st_pc' = "loop"
    /\ layout_predictions' = <<>>
    /\ table_predictions' = <<>>
    /\ current_table' = None
    /\ merged_tables' = <<>>
    /\ UNCHANGED notStitch

NextStitch == NextPage \/ NextTable \/ ReturnMerged \/ Restitch

SpecStitch == InitStitch /\ [][NextStitch]_vars

\* ------------------------------------------------------------ run_ocr
\* ocr_result of one page: the text lines are those of the page's image, read
\* by the GPU predictors or by a CPU worker
OcrResult(page, tier) == [page |-> page, tier |-> tier]

\* the None a worker returns at line 51 for the page it failed on
WorkerNone(page) == [page |-> page, tier |-> "None"]

Pending(page) == [page |-> page, tier |-> "pending"]

\* what one attempt on the GPU predictors (lines 107-108) can do
GpuOutcomes == {"ok", "OutOfMemoryError", "Exception"}

\* what one ocr_worker call (lines 35-51) can do
WorkerOutcomes == {"ok", "Exception"}

\* the slice starting one page late, past the page that ran out of memory
RemainingImagesSkipOne(n, preds) == [j \in 1..(n - Len(preds) - 1) |-> Len(preds) + 1 + j]

\* line 135: images[len(ocr_predictions):]
RemainingImages(n, preds) == [j \in 1..(n - Len(preds)) |-> Len(preds) + j]

\* the None results not filtered out
ValidResultsAll(rs) == rs

\* line 141: [r for r in results if r is not None]
ValidResults(rs) == SelectSeq(rs, LAMBDA r : r.tier # "None")

\* lines 142-143: the count the warning reports (nothing is reported for 0)
SkippedCount(rs) == Len(rs) - Len(ValidResults(rs))

\* the loop going on after the pool block, the break missing
AfterPoolContinue == "loop"

\* line 145: break
AfterPool == "done"

\* what cpu_count() may return on the machine of the run
CpuCounts == {1, 4, 6, 8}

Min(a, b) == IF a <= b THEN a ELSE b

\* line 129: the number of cores the log message names
AnnouncedCores(cores) == Min(6, cores)

\* line 130: Pool(processes=6)
PoolProcesses(cores) == 6

\* line 104: if not use_cpu
GpuGuard(flag) == ~flag

InitOcr ==
    /\ ocr_pc = "loop"
    /\ images \in 0..MaxImages
    /\ idx = 1
    /\ use_cpu = FALSE
    /\ ocr_predictions = <<>>
    /\ image_langs = <<>>
    /\ results = <<>>
    /\ skipped = 0
    /\ pools_started = 0
    /\ gpu_calls = [i \in 1..images |-> 0]
    /\ cpu_calls = [i \in 1..images |-> 0]
    /\ oom_page = 0
    /\ cpu_cores \in CpuCounts
    /\ pool_processes = 0
    /\ announced_cores = 0
    /\ StitchIdle
    /\ DocIdle
    /\ ScriptsIdle

\* lines 104-125: one attempt of the loop body on the GPU predictors
GpuPage ==
    /\ ocr_pc = "loop"
    /\ idx <= images
    /\ GpuGuard(use_cpu)
    /\ gpu_calls' = [gpu_calls EXCEPT ![idx] = @ + 1]
    /\ \E outcome \in GpuOutcomes :
          CASE outcome = "ok" ->
                 /\ ocr_predictions' = Append(ocr_predictions, OcrResult(idx, "gpu"))
                 /\ idx' = idx + 1
                 /\ UNCHANGED <<ocr_pc, use_cpu, oom_page>>
            [] outcome = "OutOfMemoryError" ->
                 \* caught at line 123; the iteration goes on at line 127
                 /\ use_cpu' = TRUE
                 /\ oom_page' = idx
                 /\ UNCHANGED <<ocr_pc, idx, ocr_predictions>>
            [] outcome = "Exception" ->
                 \* no handler: run_ocr ends with the exception
                 /\ ocr_pc' = "raised"
                 /\ UNCHANGED <<idx, use_cpu, ocr_predictions, oom_page>>
    /\ UNCHANGED <<images, image_langs, results, skipped, pools_started, cpu_calls>>
    /\ UNCHANGED <<cpu_cores, pool_processes, announced_cores>>
    /\ UNCHANGED notOcr

\* lines 127-136: the pool is created and pool.map hands out the remaining pages
StartPool ==
    /\ ocr_pc = "loop"
    /\ idx <= images
    /\ use_cpu
    /\ announced_cores' = AnnouncedCores(cpu_cores)
    /\ pools_started' = pools_started + 1
    /\ pool_processes' = PoolProcesses(cpu_cores)
    /\ image_langs' = RemainingImages(images, ocr_predictions)
    /\ results' = [j \in 1..Len(RemainingImages(images, ocr_predictions)) |->
                      Pending(RemainingImages(images, ocr_predictions)[j])]
    /\ ocr_pc' = "pool"
    /\ UNCHANGED <<images, idx, use_cpu, ocr_predictions, skipped, gpu_calls,
                   cpu_calls, oom_page, cpu_cores>>
    /\ UNCHANGED notOcr

\* lines 32-51: a pool process runs ocr_worker on one of the pages handed out
Worker ==
    /\ ocr_pc = "pool"
    /\ \E j \in 1..Len(results) :
          /\ results[j].tier = "pending"
          /\ cpu_calls' = [cpu_calls EXCEPT ![image_langs[j]] = @ + 1]
          /\ \E outcome \in WorkerOutcomes :
                results' = [results EXCEPT ![j] =
                               IF outcome = "ok"
                               THEN OcrResult(image_langs[j], "cpu")
                               ELSE WorkerNone(image_langs[j])]
    /\ UNCHANGED <<ocr_pc, images, idx, use_cpu, ocr_predictions, image_langs,
                   skipped, pools_started, gpu_calls, oom_page>>
    /\ UNCHANGED <<cpu_cores, pool_processes, announced_cores>>
    /\ UNCHANGED notOcr

\* lines 136-145: pool.map returns once every worker has; filter, warn, extend, break
CollectResults ==
    /\ ocr_pc = "pool"
    /\ \A j \in 1..Len(results) : results[j].tier # "pending"
    /\ skipped' = IF Len(ValidResults(results)) < Len(results)
                  THEN SkippedCount(results) ELSE skipped
    /\ ocr_predictions' = ocr_predictions \o ValidResults(results)
    /\ ocr_pc' = AfterPool
    /\ idx' = idx + 1
    /\ UNCHANGED <<images, use_cpu, image_langs, results, pools_started, gpu_calls,
                   cpu_calls, oom_page>>
    /\ UNCHANGED <<cpu_cores, pool_processes, announced_cores>>
    /\ UNCHANGED notOcr

\* lines 147-148: the loop is exhausted
ReturnOcr ==
    /\ ocr_pc = "loop"
    /\ idx > images
    /\ ocr_pc' = "done"
    /\ UNCHANGED <<images, idx, use_cpu, ocr_predictions, image_langs, results,
                   skipped, pools_started, gpu_calls, cpu_calls, oom_page>>
    /\ UNCHANGED <<cpu_cores, pool_processes, announced_cores>>
    /\ UNCHANGED notOcr

NextOcr == GpuPage \/ StartPool \/ Worker \/ CollectResults \/ ReturnOcr

SpecOcr == InitOcr /\ [][NextOcr]_vars

\* ------------------------------------------------------- gemini_refine
\* Python values as json.loads builds them: t is the type, v the content.
\* A str carries what json.loads makes of its text: <<>> if the text is no
\* JSON document, <<x>> if it denotes x.
JNull == [t |-> "null", v |-> <<>>]
JNum == [t |-> "num", v |-> <<>>]
JStr(doc) == [t |-> "str", v |-> doc]
JList(items) == [t |-> "list", v |-> items]
JObj(items) == [t |-> "obj", v |-> items]

\* the outcome of evaluating an expression: a value, or a raised exception
Ret(x) == [exc |-> "", val |-> x]
Raise(e) == [exc |-> e, val |-> JNull]

\* x[key] for a str key
GetKey(x, key) ==
    IF x.t = "obj"
    THEN IF key \in DOMAIN x.v THEN Ret(x.v[key]) ELSE Raise("KeyError")
    ELSE Raise("TypeError")

\* x[0]
GetItem0(x) ==
    CASE x.t = "list" -> IF Len(x.v) > 0 THEN Ret(x.v[1]) ELSE Raise("IndexError")
      [] x.t = "obj"  -> Raise("KeyError")
      [] x.t = "str"  -> Ret(JStr(<<>>))
      [] OTHER        -> Raise("TypeError")

\* json.loads(x)
JsonLoads(x) ==
    IF x.t = "str"
    THEN IF Len(x.v) > 0 THEN Ret(x.v[1]) ELSE Raise("JSONDecodeError")
    ELSE Raise("TypeError")

\* response.raise_for_status() raises HTTPError for a 4xx or 5xx status
RaisesForStatus(status) == status >= 400 /\ status < 600

\* response.json()
ResponseJson(resp) ==
    IF Len(resp.body) > 0 THEN Ret(resp.body[1]) ELSE Raise("JSONDecodeError")

\* one subscript: x["key"] for a str, x[0] for the 0
Subscript(x, sub) == IF sub = "0" THEN GetItem0(x) ELSE GetKey(x, sub)

\* a chain of subscripts, left to right, ending at the first that raises
RECURSIVE Subscripts(_, _)
Subscripts(r, subs) ==
    IF r.exc # "" \/ subs = <<>> THEN r
    ELSE Subscripts(Subscript(r.val, Head(subs)), Tail(subs))

\* line 176: result["candidates"][0]["content"]["parts"][0]["text"]
ContentText(result) ==
    Subscripts(Ret(result), <<"candidates", "0", "content", "parts", "0", "text">>)

\* lines 175-178: the statements of the try block after raise_for_status
ParseReply(resp) ==
    IF ResponseJson(resp).exc # "" THEN ResponseJson(resp)
    ELSE IF ContentText(ResponseJson(resp).val).exc # ""
         THEN ContentText(ResponseJson(resp).val)
         ELSE JsonLoads(ContentText(ResponseJson(resp).val).val)

\* line 179: except (requests.RequestException, json.JSONDecodeError, KeyError);
\* ConnectionError, Timeout and HTTPError are RequestExceptions
Caught(e) ==
    e \in {"RequestException", "ConnectionError", "Timeout", "HTTPError",
           "JSONDecodeError", "KeyError"}

\* a dict is modelled by the record of its items
AsPython(x) == IF x.t = "obj" THEN x.v ELSE x

\* lines 168-181: what gemini_refine does with the reply resp
GeminiRefine(table_data, resp) ==
    LET r == IF resp.transport # "ok" THEN Raise(resp.transport)
             ELSE IF RaisesForStatus(resp.status) THEN Raise("HTTPError")
             ELSE ParseReply(resp)
    IN  IF r.exc = "" THEN [exc |-> "", val |-> AsPython(r.val), fallback |-> FALSE]
        ELSE IF Caught(r.exc) THEN [exc |-> "", val |-> table_data, fallback |-> TRUE]
        ELSE [exc |-> r.exc, val |-> None, fallback |-> FALSE]

\* ---------------------------------------- gemini_refine: the replies
\* cell["text"] of a cell whose text is None
TextNone == "<None>"

\* a generateContent reply whose first part is `part`
ReplyWithPart(part) ==
    JObj([candidates |->
            JList(<<JObj([content |-> JObj([parts |-> JList(<<part>>)])])>>)])

ReplyWithCandidates(cands) == JObj([candidates |-> cands])

\* the table as the model may give it back: every missing text filled in
Refined(table) ==
    [table EXCEPT !.cells =
        [i \in 1..Len(table.cells) |->
            [table.cells[i] EXCEPT !.text = IF @ = TextNone THEN "filled" ELSE @]]]

HttpOk(status, body) == [transport |-> "ok", status |-> status, body |-> body]

\* what requests.post may come back with for table
Responses(table) ==
    {[transport |-> "ConnectionError", status |-> 0, body |-> <<>>],
     [transport |-> "Timeout", status |-> 0, body |-> <<>>],
     HttpOk(500, <<>>),
     HttpOk(404, <<JObj([error |-> JNull])>>),
     HttpOk(304, <<ReplyWithPart(JObj([text |-> JStr(<<JObj(Refined(table))>>)]))>>),
     HttpOk(200, <<>>),
     HttpOk(200, <<JList(<<JNull>>)>>),
     HttpOk(200, <<JObj([error |-> JNull])>>),
     HttpOk(200, <<ReplyWithCandidates(JList(<<>>))>>),
     HttpOk(200, <<ReplyWithCandidates(JObj([error |-> JNull]))>>),
     HttpOk(200, <<ReplyWithCandidates(JList(<<JNull>>))>>),
     HttpOk(200, <<ReplyWithCandidates(JList(<<JObj([finishReason |-> JStr(<<>>)])>>))>>),
     HttpOk(200, <<ReplyWithCandidates(JList(<<JObj([content |-> JObj([role |-> JStr(<<>>)])])>>))>>),
     HttpOk(200, <<ReplyWithCandidates(
                     JList(<<JObj([content |-> JObj([parts |-> JList(<<>>)])])>>))>>),
     HttpOk(200, <<ReplyWithPart(JObj([inlineData |-> JNull]))>>),
     HttpOk(200, <<ReplyWithPart(JObj([text |-> JNum]))>>),
     HttpOk(200, <<ReplyWithPart(JObj([text |-> JStr(<<>>)]))>>),
     HttpOk(200, <<ReplyWithPart(JObj([text |-> JStr(<<JList(<<>>)>>)]))>>),
     HttpOk(200, <<ReplyWithPart(JObj([text |-> JStr(<<JObj(table)>>)]))>>),
     HttpOk(200, <<ReplyWithPart(JObj([text |-> JStr(<<JObj(Refined(table))>>)]))>>)}

\* ------------------------------------------- process_document: assembling
DocCell(r, c, text, hdr) == [row_id |-> r, col_id |-> c, text |-> text, is_header |-> hdr]

\* merged tables as the stitcher hands them on, cells with text and header flag
PlainTable ==
    [page |-> 0, bbox |-> <<0, 40, 100, 100>>,
     rows |-> <<<<0, 40, 100, 70>>, <<0, 70, 100, 100>>>>,
     cells |-> <<DocCell(0, 0, "h0", TRUE), DocCell(0, 1, "h1", TRUE),
                 DocCell(1, 0, "a", FALSE), DocCell(1, 1, TextNone, FALSE)>>,
     frags |-> <<1>>]

ShuffledTable ==
    [page |-> 1, bbox |-> <<0, 120, 100, 200>>,
     rows |-> <<<<0, 120, 100, 160>>, <<0, 160, 100, 200>>>>,
     cells |-> <<DocCell(1, 1, "d", FALSE), DocCell(0, 1, "b", FALSE),
                 DocCell(1, 0, TextNone, FALSE), DocCell(0, 0, "h", TRUE)>>,
     frags |-> <<2>>]

DataTable ==
    [page |-> 1, bbox |-> <<0, 130, 100, 200>>,
     rows |-> <<<<0, 130, 100, 200>>>>,
     cells |-> <<DocCell(0, 0, "x", FALSE), DocCell(0, 1, "y", FALSE)>>,
     frags |-> <<3>>]

\* the table the stitcher makes of PlainTable on page 0 and DataTable on
\* page 1 (30 between the edges, no region between)
StitchedTable == MergeInto(PlainTable, DataTable)

DocTables == {PlainTable, ShuffledTable, DataTable, StitchedTable}

\* the merged_tables process_document may get at line 226
DocInputs ==
    UNION {[1..n -> DocTables] : n \in 0..MaxTables}

\* sorted(row_cells.keys()) for the set ids
RECURSIVE SortedIds(_)
SortedIds(ids) ==
    IF ids = {} THEN <<>>
    ELSE LET m == CHOOSE x \in ids : \A y \in ids : x <= y
         IN  <<m>> \o SortedIds(ids \ {m})

\* lines 250-255: row_cells[row_id], the cells of a row in list order
RowCells(cells, r) == SelectSeq(cells, LAMBDA c : c.row_id = r)

RECURSIVE InsertByCol(_, _)
InsertByCol(sorted, x) ==
    IF sorted = <<>> THEN <<x>>
    ELSE IF x.col_id < Head(sorted).col_id THEN <<x>> \o sorted
    ELSE <<Head(sorted)>> \o InsertByCol(Tail(sorted), x)

\* sorted(cells, key=lambda x: x["col_id"]), a stable sort
RECURSIVE SortByCol(_)
SortByCol(cells) ==
    IF cells = <<>> THEN <<>>
    ELSE InsertByCol(SortByCol(SubSeq(cells, 1, Len(cells) - 1)), cells[Len(cells)])

\* the texts of a row in list order, the sorted() of line 259 left out
RowDataListOrder(cells) ==
    [i \in 1..Len(cells) |-> IF cells[i].text # TextNone THEN cells[i].text ELSE ""]

\* line 259: the texts of a row in col_id order, None rendered as ""
RowData(cells) ==
    [i \in 1..Len(cells) |->
        IF SortByCol(cells)[i].text # TextNone THEN SortByCol(cells)[i].text ELSE ""]

\* lines 257-263: the rows that go to "headers" (hdr) or to "rows" (~hdr)
RECURSIVE RowsFor(_, _, _)
RowsFor(cells, ids, hdr) ==
    IF ids = <<>> THEN <<>>
    ELSE (IF RowCells(cells, Head(ids))[1].is_header = hdr
          THEN <<RowData(RowCells(cells, Head(ids)))>> ELSE <<>>)
         \o RowsFor(cells, Tail(ids), hdr)

\* line 251: the loop reads table["cells"]; refined_table is not read
AssembledCells(table, refined) == table.cells

\* lines 243-263
TableJson(tid, table, refined) ==
    LET cells == AssembledCells(table, refined)
        ids   == SortedIds({cells[i].row_id : i \in 1..Len(cells)})
    IN  [table_id |-> tid,
         page     |-> table.page,
         rows     |-> RowsFor(cells, ids, FALSE),
         headers  |-> RowsFor(cells, ids, TRUE)]

\* lines 109-118: one entry of ocr_result["text_lines"]
TextLine(text, bbox) == [text |-> text, bbox |-> bbox]

\* the text lines of two pages, placed around the box (0, 40, 100, 100):
\* inside it, on its boundary, and sticking out by one on a single edge
OcrPage1 ==
    [text_lines |-> <<TextLine("in", <<10, 50, 90, 60>>),
                      TextLine("left", <<0 - 1, 50, 90, 60>>),
                      TextLine("edge", <<0, 40, 100, 100>>),
                      TextLine("top", <<10, 39, 90, 60>>)>>]

OcrPage2 ==
    [text_lines |-> <<TextLine("bottom", <<10, 50, 90, 101>>),
                      TextLine("right", <<10, 50, 101, 60>>),
                      TextLine("low", <<10, 130, 90, 140>>),
                      TextLine("p2", <<10, 50, 90, 60>>)>>]

\* what run_ocr may return at line 225: one ocr_result per recognized page
OcrOutputs == {<<>>, <<OcrPage1>>, <<OcrPage1, OcrPage2>>}

\* the test on the vertical edges only
ContainedVertically(line_bbox, table_bbox) ==
    line_bbox[2] >= table_bbox[2] /\ line_bbox[4] <= table_bbox[4]

\* lines 237-238: the containment test on all four edges
Contained(line_bbox, table_bbox) ==
    /\ line_bbox[1] >= table_bbox[1] /\ line_bbox[3] <= table_bbox[3]
    /\ line_bbox[2] >= table_bbox[2] /\ line_bbox[4] <= table_bbox[4]

\* the texts of the lines of one page that pass the test, in line order
KeptTexts(lines, table_bbox) ==
    LET kept == SelectSeq(lines, LAMBDA line : Contained(line.bbox, table_bbox))
    IN  [i \in 1..Len(kept) |-> kept[i].text]

\* lines 233-239: ocr_text, page after page
OcrTextLines(table_bbox, preds) ==
    Flatten([p \in 1..Len(preds) |-> KeptTexts(preds[p].text_lines, table_bbox)])

\* line 241: "\n".join(ocr_text)
RECURSIVE JoinLines(_)
JoinLines(texts) ==
    IF texts = <<>> THEN ""
    ELSE IF Len(texts) = 1 THEN texts[1]
    ELSE texts[1] \o "\n" \o JoinLines(Tail(texts))

\* an entry of stages_run: the stage and the pages it dropped
Stage(name, dropped) == [stage |-> name, dropped |-> dropped]

\* what a stage that may fail can do
StageOutcomes == {"ok", "raise"}

\* the pages run_ocr may drop (workers that returned None, line 141)
OcrDrops == {0, 1}

\* line 271: the closing message names the number of tables and the path
ClosingReport(tables) == [extracted |-> Len(tables), path |-> "tables.json"]

\* the state after construction (lines 54-66), process_document not yet called
InitDoc ==
    /\ StitchIdle
    /\ OcrIdle
    /\ ScriptsIdle
    /\ doc_pc = "start"
    /\ table_idx = 0
    /\ response = NoResponse
    /\ refined_table = None
    /\ refine_exc = ""
    /\ fell_back = FALSE
    /\ output_tables = <<>>
    /\ tables_json = <<>>
    /\ ocr_text = ""
    /\ resident = LoadedAtInit
    /\ reports = <<>>
    /\ stages_run = <<>>
    /\ fallbacks = 0
    /\ calls = 1
    /\ completed = 0

\* line 222: pdf_to_images / Image.open
ReadInput ==
    /\ doc_pc = "start"
    /\ UNCHANGED <<calls, completed, scriptVars>>
    /\ stages_run' = Append(stages_run, Stage("read", 0))
    /\ \E outcome \in StageOutcomes :
          doc_pc' = IF outcome = "ok" THEN "layout" ELSE "raised"
    /\ UNCHANGED <<table_idx, response, refined_table, refine_exc, fell_back,
                   output_tables, tables_json, ocr_text, resident, reports, fallbacks>>
    /\ UNCHANGED <<stitchVars, ocrVars>>

\* the predictor called as if __init__ had just constructed it
PredictorOutcomesReloaded(name) == StageOutcomes

\* lines 78, 89: self.layout_predictor(images) / self.table_rec_predictor(images);
\* calling the None of lines 80, 91 raises TypeError
PredictorOutcomes(name) == IF name \in resident THEN StageOutcomes ELSE {"raise"}

\* lines 223, 75-84: detect_layout; the predictor is dropped at line 80 once
\* it has returned
DetectLayout ==
    /\ doc_pc = "layout"
    /\ UNCHANGED <<calls, completed, scriptVars>>
    /\ stages_run' = Append(stages_run, Stage("layout", 0))
    /\ \E outcome \in PredictorOutcomes("layout_predictor") :
          IF outcome = "ok"
          THEN /\ resident' = resident \ {"layout_predictor"}
               /\ doc_pc' = "tables"
          ELSE /\ doc_pc' = "raised"
               /\ UNCHANGED resident
    /\ UNCHANGED <<table_idx, response, refined_table, refine_exc, fell_back,
                   output_tables, tables_json, ocr_text, reports, fallbacks>>
    /\ UNCHANGED <<stitchVars, ocrVars>>

\* lines 224, 86-95: detect_tables; the predictor is dropped at line 91
DetectTables ==
    /\ doc_pc = "tables"
    /\ UNCHANGED <<calls, completed, scriptVars>>
    /\ stages_run' = Append(stages_run, Stage("tables", 0))
    /\ \E outcome \in PredictorOutcomes("table_rec_predictor") :
          IF outcome = "ok"
          THEN /\ resident' = resident \ {"table_rec_predictor"}
               /\ doc_pc' = "ocr"
          ELSE /\ doc_pc' = "raised"
               /\ UNCHANGED resident
    /\ UNCHANGED <<table_idx, response, refined_table, refine_exc, fell_back,
                   output_tables, tables_json, ocr_text, reports, fallbacks>>
    /\ UNCHANGED <<stitchVars, ocrVars>>

\* lines 225, 97-148: run_ocr returns, some pages dropped by their workers,
\* or ends with the exception of a GPU predictor; det_predictor_gpu and
\* rec_predictor_gpu are assigned nowhere after line 63
RunOcr ==
    /\ doc_pc = "ocr"
    /\ UNCHANGED <<calls, completed, scriptVars>>
    /\ \/ /\ \E dropped \in OcrDrops :
                stages_run' = Append(stages_run, Stage("ocr", dropped))
          /\ ocr_predictions' \in OcrOutputs
          /\ doc_pc' = "merge"
       \/ /\ stages_run' = Append(stages_run, Stage("ocr", 0))
          /\ doc_pc' = "raised"
          /\ UNCHANGED ocr_predictions
    /\ UNCHANGED <<table_idx, response, refined_table, refine_exc, fell_back,
                   output_tables, tables_json, ocr_text, resident, reports, fallbacks>>
    /\ UNCHANGED <<ocr_pc, images, idx, use_cpu, image_langs, results, skipped,
                   pools_started, gpu_calls, cpu_calls, oom_page, cpu_cores,
                   pool_processes, announced_cores>>
    /\ UNCHANGED stitchVars

\* lines 226, 183-215: merge_split_tables returns the merged tables, or ends
\* with the IndexError of a fragment without rows
MergeTables ==
    /\ doc_pc = "merge"
    /\ UNCHANGED <<calls, completed, scriptVars>>
    /\ stages_run' = Append(stages_run, Stage("merge", 0))
    /\ \/ /\ merged_tables' \in DocInputs
          /\ st_pc' = "done"
          /\ doc_pc' = "loop"
       \/ /\ st_pc' = "raised"
          /\ doc_pc' = "raised"
          /\ UNCHANGED merged_tables
    /\ UNCHANGED <<table_idx, response, refined_table, refine_exc, fell_back,
                   output_tables, tables_json, ocr_text, resident, reports, fallbacks>>
    /\ UNCHANGED <<layout_predictions, table_predictions, current_table, restitch_input,
                   ocrVars>>

\* lines 230-241: the next table is handed to gemini_refine
RefineTable ==
    /\ doc_pc = "loop"
    /\ UNCHANGED <<calls, completed, scriptVars>>
    /\ table_idx < Len(merged_tables)
    /\ stages_run' = Append(stages_run, Stage("refine", 0))
    /\ ocr_text' = JoinLines(OcrTextLines(merged_tables[table_idx + 1].bbox, ocr_predictions))
    /\ \E resp \in Responses(merged_tables[table_idx + 1]) :
          LET got == GeminiRefine(merged_tables[table_idx + 1], resp)
          IN  /\ response' = resp
              /\ refined_table' = got.val
              /\ refine_exc' = got.exc
              /\ fell_back' = got.fallback
              /\ fallbacks' = IF got.fallback THEN fallbacks + 1 ELSE fallbacks
              /\ doc_pc' = IF got.exc = "" THEN "assemble" ELSE "raised"
    /\ UNCHANGED <<table_idx, output_tables, tables_json, merged_tables, resident, reports>>
    /\ UNCHANGED notDoc

\* lines 243-265: table_json is built and appended
AssembleTable ==
    /\ doc_pc = "assemble"
    /\ UNCHANGED <<calls, completed, scriptVars>>
    /\ stages_run' = Append(stages_run, Stage("assemble", 0))
    /\ output_tables' =
          Append(output_tables,
                 TableJson(table_idx, merged_tables[table_idx + 1], refined_table))
    /\ table_idx' = table_idx + 1
    /\ doc_pc' = "loop"
    /\ UNCHANGED <<response, refined_table, refine_exc, fell_back, tables_json,
                   merged_tables, ocr_text, resident, reports, fallbacks>>
    /\ UNCHANGED notDoc

\* lines 267-272: tables.json is written, the closing message logged and
\* output_tables returned
WriteJson ==
    /\ doc_pc = "loop"
    /\ completed' = completed + 1
    /\ UNCHANGED <<calls, scriptVars>>
    /\ table_idx = Len(merged_tables)
    /\ stages_run' = Append(stages_run, Stage("write", 0))
    /\ tables_json' = output_tables
    /\ reports' = <<ClosingReport(output_tables)>>
    /\ doc_pc' = "written"
    /\ UNCHANGED <<table_idx, response, refined_table, refine_exc, fell_back,
                   output_tables, merged_tables, ocr_text, resident, fallbacks>>
    /\ UNCHANGED notDoc

\* line 217: process_document is called again on the same object; the
\* locals of the call before are gone, the attributes set at lines 80 and
\* 91 stay as they are
CallAgain ==
    /\ doc_pc \in {"written", "raised"}
    /\ calls < MaxCalls
    /\ calls' = calls + 1
    /\ doc_pc' = "start"
    /\ table_idx' = 0
    /\ response' = NoResponse
    /\ refined_table' = None
    /\ refine_exc' = ""
    /\ fell_back' = FALSE
    /\ output_tables' = <<>>
    /\ tables_json' = <<>>
    /\ ocr_text' = ""
    /\ reports' = <<>>
    /\ stages_run' = <<>>
    /\ fallbacks' = 0
    /\ st_pc' = "idle"
    /\ merged_tables' = <<>>
    /\ ocr_predictions' = <<>>
    /\ UNCHANGED <<resident, completed, scriptVars>>
    /\ UNCHANGED <<layout_predictions, table_predictions, current_table, restitch_input>>
    /\ UNCHANGED <<ocr_pc, images, idx, use_cpu, image_langs, results, skipped,
                   pools_started, gpu_calls, cpu_calls, oom_page, cpu_cores,
                   pool_processes, announced_cores>>

NextDoc ==
    \/ ReadInput \/ DetectLayout \/ DetectTables \/ RunOcr \/ MergeTables
    \/ RefineTable \/ AssembleTable \/ WriteJson \/ CallAgain

SpecDoc == InitDoc /\ [][NextDoc]_vars

\* ------------------------------------------------------- stitcher: claims
\* the fragment the inner loop body has just handled
LastFrag == AllFrags[Len(AllFrags)]

\* the inner loop body ran on a candidate while an accumulator was open, both
\* with rows
CandidateStep ==
    /\ st_pc = "loop"
    /\ current_table # None
    /\ Len(AllFrags') = Len(AllFrags) + 1
    /\ Len(current_table.rows) > 0
    /\ Len(LastFrag'.rows) > 0

\* the candidate was merged: one table fewer is closed than would be
MergedStep == CandidateStep /\ st_pc' = "loop" /\ merged_tables' = merged_tables

LastRowBottom(t) == t.rows[Len(t.rows)][4]
FirstRowTop(t) == t.rows[1][2]

\* a non-Table region of the page the loop is at lies fully between the edges
RegionBetween(bottom, top, page_layout) ==
    \E r \in page_layout :
        r.label # "Table" /\ r.bbox[2] > bottom /\ r.bbox[4] < top

NoDuplicatePairs(t) ==
    \A i, j \in 1..Len(t.cells) :
        (t.cells[i].row_id = t.cells[j].row_id /\ t.cells[i].col_id = t.cells[j].col_id)
            => i = j

\* C2: every returned MergedTable has pairwise distinct (row_id, col_id)
\* pairs, after any number of merges.
C2_RowUniqueness ==
    st_pc = "done" => \A k \in 1..Len(merged_tables) : NoDuplicatePairs(merged_tables[k])

\* C2 witness: a returned table made by two merges
C2_Witness ==
    /\ st_pc = "done"
    /\ \E k \in 1..Len(merged_tables) :
          /\ Len(merged_tables[k].frags) = 3
          /\ Len(merged_tables[k].cells) >= 3 * Cardinality(ColIds)

\* C3 (as claimed): on a merge every cell of the candidate has its row_id
\* increased by exactly (max row_id of the accumulator before the merge) + 1.
C3_OffsetIsAccumulatorMaxPlusOne ==
    [][MergedStep =>
        \A i \in 1..Len(LastFrag'.cells) :
            current_table'.cells[Len(current_table.cells) + i].row_id
                = LastFrag'.cells[i].row_id + MaxRowId(current_table.cells) + 1]_vars

\* the input of the end-to-end scenario: two pages, one fragment each, rows
\* 0..2 then rows 0..1, 20px between the edges, no non-Table region between
C4_Scenario ==
    /\ Len(table_predictions) = 2
    /\ Len(table_predictions[1]) = 1
    /\ Len(table_predictions[2]) = 1
    /\ Len(table_predictions[1][1].rows) = 3
    /\ Len(table_predictions[2][1].rows) = 2
    /\ FirstRowTop(table_predictions[2][1]) - LastRowBottom(table_predictions[1][1]) = 20
    /\ \A p \in 1..2 :
          ~RegionBetween(LastRowBottom(table_predictions[1][1]),
                         FirstRowTop(table_predictions[2][1]), layout_predictions[p])

\* C4: the scenario yields exactly one MergedTable whose row_ids are exactly
\* 0..4, the page-1 rows (0..2) first.
C4_EndToEndStitch ==
    (st_pc = "done" /\ C4_Scenario) =>
        /\ Len(merged_tables) = 1
        /\ LET cells == merged_tables[1].cells
               n1    == Len(table_predictions[1][1].cells)
           IN  /\ {cells[i].row_id : i \in 1..Len(cells)} = 0..4
               /\ Len(cells) = 5 * Cardinality(ColIds)
               /\ \A i \in 1..Len(cells) : (i <= n1) <=> (cells[i].row_id <= 2)
               /\ \A i, j \in 1..Len(cells) : i <= j => cells[i].row_id <= cells[j].row_id

\* C4 witness: the scenario was run to its end
C4_Witness == st_pc = "done" /\ C4_Scenario /\ layout_predictions[2] = {TextBetween125}

\* ------------------------------------------------------- run_ocr: claims
\* the pages whose worker returned None
DroppedPages == {image_langs[j] : j \in {i \in 1..Len(results) : results[i].tier = "None"}}

\* the pages whose worker returned a result
RecognizedPages == {image_langs[j] : j \in {i \in 1..Len(results) : results[i].tier = "cpu"}}

PredictionsOf(page) == {i \in 1..Len(ocr_predictions) : ocr_predictions[i].page = page}

\* C7: resource exhaustion on page k of n: the results of pages 1..k-1 are
\* the GPU's and those pages are not processed again, every page k..n is
\* processed exactly once by a CPU worker, and run_ocr returns n minus the
\* number of dropped pages results, in page order.
C7_OcrDegradation ==
    (ocr_pc = "done" /\ oom_page # 0) =>
        /\ \A i \in 1..(oom_page - 1) :
              /\ ocr_predictions[i] = OcrResult(i, "gpu")
              /\ gpu_calls[i] = 1
              /\ cpu_calls[i] = 0
        /\ \A q \in oom_page..images : cpu_calls[q] = 1
        /\ Len(ocr_predictions) = images - Cardinality(DroppedPages)
        /\ \A i, j \in 1..Len(ocr_predictions) :
              i < j => ocr_predictions[i].page < ocr_predictions[j].page

\* C7 witness: exhaustion on page 3 of 4, one of the fallback pages dropped
C7_Witness ==
    /\ ocr_pc = "done"
    /\ images = 4
    /\ oom_page = 3
    /\ DroppedPages = {3}
    /\ Len(ocr_predictions) = 3

\* C8: within one run_ocr call the mode only moves Accelerated -> Degraded:
\* the switch is never undone, no page is attempted on the GPU predictors
\* after it, the pool is started at most once, and neither the exhaustion
\* nor anything after it ends run_ocr with an exception.
C8_ModeOnlyDegrades ==
    [][/\ use_cpu => use_cpu'
       /\ use_cpu => gpu_calls' = gpu_calls
       /\ pools_started' <= 1
       /\ (use_cpu \/ use_cpu') => ocr_pc' # "raised"]_vars

\* C8 witness: exhaustion in the middle of a run that then completed
C8_Witness ==
    /\ ocr_pc = "done"
    /\ use_cpu
    /\ oom_page = 2
    /\ images >= 3
    /\ pools_started = 1

\* C9: in degraded mode a worker's failure never aborts run_ocr; the failed
\* page contributes no result, every other remaining page contributes its
\* result, and the reported skipped count is the number of failed pages.
C9_WorkerFailureNonFatal ==
    /\ ocr_pc = "raised" => pools_started = 0
    /\ (ocr_pc = "done" /\ pools_started > 0) =>
          /\ \A q \in DroppedPages : PredictionsOf(q) = {}
          /\ \A q \in RecognizedPages :
                /\ Cardinality(PredictionsOf(q)) = 1
                /\ \A i \in PredictionsOf(q) : ocr_predictions[i] = OcrResult(q, "cpu")
          /\ DroppedPages \cup RecognizedPages = oom_page..images
          /\ skipped = Cardinality(DroppedPages)

\* C9 witness: two workers failed, one succeeded
C9_Witness ==
    /\ ocr_pc = "done"
    /\ Cardinality(DroppedPages) = 2
    /\ Cardinality(RecognizedPages) >= 1
    /\ skipped = 2

\* C20 (as claimed): the degraded tier's pool runs with min(6, number of CPU
\* cores) worker processes, never more workers than cores and never more
\* than 6, and the worker count announced in the log equals the number of
\* processes started.
C20_PoolBoundedByCores ==
    pools_started > 0 =>
        /\ pool_processes = Min(6, cpu_cores)
        /\ pool_processes <= cpu_cores
        /\ pool_processes <= 6
        /\ announced_cores = pool_processes

\* ------------------------------------- gemini_refine / assembling: claims
\* gemini_refine has just been called for the table at table_idx
RefineReturned == doc_pc \in {"assemble", "raised"} /\ response # NoResponse

\* the table handed to that call
TableData == merged_tables[table_idx + 1]

\* the reply has candidates[0].content.parts[0].text, a str holding JSON
HasContentPath(body) ==
    /\ body.t = "obj" /\ "candidates" \in DOMAIN body.v
    /\ body.v.candidates.t = "list" /\ Len(body.v.candidates.v) > 0
    /\ LET cand == body.v.candidates.v[1]
       IN  /\ cand.t = "obj" /\ "content" \in DOMAIN cand.v
           /\ cand.v.content.t = "obj" /\ "parts" \in DOMAIN cand.v.content.v
           /\ cand.v.content.v.parts.t = "list" /\ Len(cand.v.content.v.parts.v) > 0
           /\ LET part == cand.v.content.v.parts.v[1]
              IN  /\ part.t = "obj" /\ "text" \in DOMAIN part.v
                  /\ part.v.text.t = "str" /\ Len(part.v.text.v) > 0

\* a reply with a 2xx status that is not JSON, lacks the content path, or
\* whose text part is no JSON string
MalformedReply(resp) ==
    /\ resp.transport = "ok"
    /\ resp.status \in 200..299
    /\ (Len(resp.body) = 0 \/ ~HasContentPath(resp.body[1]))

\* C5 (as claimed): for every malformed reply with a 2xx status gemini_refine
\* returns the original table unmodified and no exception propagates.
C5_MalformedReplyFallsBack ==
    (RefineReturned /\ MalformedReply(response)) =>
        /\ doc_pc = "assemble"
        /\ refine_exc = ""
        /\ refined_table = TableData

\* the request failed at transport level or came back with a non-2xx status
FailedRequest(resp) ==
    \/ resp.transport \notin {"ok", "none"}
    \/ resp.transport = "ok" /\ resp.status \notin 200..299

\* C6 (as claimed): if the request fails at transport level or returns a
\* non-2xx status, gemini_refine returns exactly its input table and raises
\* no exception.
C6_FailedRequestFallsBack ==
    (RefineReturned /\ FailedRequest(response)) =>
        /\ refine_exc = ""
        /\ refined_table = TableData

\* the table just assembled, and what was emitted for it
AssembledTable == merged_tables[table_idx]
Emitted == output_tables[table_idx]

\* refinement succeeded with a table that differs from the one handed in
RefinedDiffers ==
    /\ ~fell_back
    /\ "cells" \in DOMAIN refined_table
    /\ refined_table # AssembledTable

\* C10 (as claimed): when refinement succeeds and returns a table that
\* differs from its input, the emitted headers/rows are those of the refined
\* table.
C10_EmittedReflectsRefined ==
    (doc_pc = "loop" /\ table_idx > 0 /\ RefinedDiffers) =>
        /\ Emitted.rows = TableJson(table_idx - 1, refined_table, refined_table).rows
        /\ Emitted.headers = TableJson(table_idx - 1, refined_table, refined_table).headers

\* ---------------------------------------------------- assembling: claims
\* the row_ids and, per row, the col_ids of a table's cells
RowIdsOf(table) == {table.cells[i].row_id : i \in 1..Len(table.cells)}
ColIdsOf(table, r) ==
    {table.cells[i].col_id : i \in {j \in 1..Len(table.cells) : table.cells[j].row_id = r}}

\* the cell of row r, column c
CellAt(table, r, c) ==
    table.cells[CHOOSE i \in 1..Len(table.cells) :
                    table.cells[i].row_id = r /\ table.cells[i].col_id = c]

\* the i-th smallest member of a set of integers
Nth(ids, i) == CHOOSE x \in ids : Cardinality({y \in ids : y < x}) = i - 1

\* the texts of row r from the lowest col_id to the highest, "" for a None
TextsByCol(table, r) ==
    [i \in 1..Cardinality(ColIdsOf(table, r)) |->
        IF CellAt(table, r, Nth(ColIdsOf(table, r), i)).text = TextNone THEN ""
        ELSE CellAt(table, r, Nth(ColIdsOf(table, r), i)).text]

\* the rows of the set ids, rendered in ascending row_id order
RowsAscending(table, ids) ==
    [i \in 1..Cardinality(ids) |-> TextsByCol(table, Nth(ids, i))]

\* C11: for every emitted table the header rows and the data rows are each
\* in ascending row_id order, each row lists its cells' text in ascending
\* col_id order, a cell whose text is None is rendered as "", and building
\* the table's JSON does not end process_document.
C11_RowsOrderedAndTextRendered ==
    /\ doc_pc = "raised" => stages_run[Len(stages_run)].stage # "assemble"
    /\ \A k \in 1..Len(output_tables) :
          /\ \E H \in SUBSET RowIdsOf(merged_tables[k]) :
                output_tables[k].headers = RowsAscending(merged_tables[k], H)
          /\ \E D \in SUBSET RowIdsOf(merged_tables[k]) :
                output_tables[k].rows = RowsAscending(merged_tables[k], D)
          /\ \A row \in {output_tables[k].rows[i] : i \in 1..Len(output_tables[k].rows)}
                      \cup {output_tables[k].headers[i] :
                                i \in 1..Len(output_tables[k].headers)} :
                \A j \in 1..Len(row) : row[j] # TextNone

\* C11 witness: a table whose cell list is out of row and column order and
\* holds a cell without text was emitted, the text rendered as ""
C11_Witness ==
    /\ Len(output_tables) >= 1
    /\ merged_tables[1] = ShuffledTable
    /\ output_tables[1].rows = <<<<"h", "b">>, <<"", "d">>>>

\* the rows whose cell with the lowest col_id has is_header true
HeaderRowIds(table) ==
    {r \in RowIdsOf(table) : CellAt(table, r, Nth(ColIdsOf(table, r), 1)).is_header}

\* C12 (as claimed): every distinct row_id of a table is emitted exactly
\* once, in "headers" or in "rows" and never in both, and it is in "headers"
\* iff the row's cell with the lowest col_id has is_header true, whatever the
\* order of the cells in the table's cell list.
C12_HeaderIffFirstColumnCell ==
    \A k \in 1..Len(output_tables) :
        /\ output_tables[k].headers =
              RowsAscending(merged_tables[k], HeaderRowIds(merged_tables[k]))
        /\ output_tables[k].rows =
              RowsAscending(merged_tables[k],
                            RowIdsOf(merged_tables[k]) \ HeaderRowIds(merged_tables[k]))

\* process_document has ended: tables.json written, or an exception let through
DocEnded == doc_pc \in {"written", "raised"}

\* C13 (as claimed): process_document emits exactly one table object per
\* MergedTable, in the stitcher's order, with table_id numbering them
\* consecutively; the number of emitted tables equals the number of
\* MergedTables whether or not refinements failed.
C13_OneTablePerMergedTable ==
    DocEnded =>
        /\ Len(tables_json) = Len(merged_tables)
        /\ \A k \in 1..Len(tables_json) :
              /\ tables_json[k].table_id = k - 1
              /\ tables_json[k].page = merged_tables[k].page
              /\ tables_json[k] = TableJson(k - 1, merged_tables[k], merged_tables[k])

\* ------------------------------------------- stitcher: partition claims
\* merge_split_tables has ended: it returned, or let an exception through
StitchEnded == st_pc \in {"done", "raised"} /\ restitch_input = None

\* the fragments the returned tables are made of, table after table
EmittedFrags == Flatten([k \in 1..Len(merged_tables) |-> merged_tables[k].frags])

\* the rows of the fragments ids, one fragment after the other
RECURSIVE RowsOfFrags(_)
RowsOfFrags(ids) ==
    IF ids = <<>> THEN <<>> ELSE AllFrags[Head(ids)].rows \o RowsOfFrags(Tail(ids))

\* C14 (as claimed): merge_split_tables partitions the fragment sequence into
\* contiguous runs: every input fragment ends up in exactly one MergedTable,
\* the tables are returned in the order of their first fragment, each table
\* holds the rows of its run, and the last open accumulator is always
\* returned (no fragments gives an empty result).
C14_ContiguousPartition ==
    StitchEnded =>
        /\ st_pc = "done"
        /\ EmittedFrags = [i \in 1..Len(AllFrags) |-> i]
        /\ \A k \in 1..Len(merged_tables) :
              /\ Len(merged_tables[k].frags) >= 1
              /\ merged_tables[k].rows = RowsOfFrags(merged_tables[k].frags)

\* the fragments without rows among those iterated
EmptyFrags == {i \in 1..Len(AllFrags) : Len(AllFrags[i].rows) = 0}

\* C15 (as claimed): a fragment with no rows is skipped by the stitcher: it
\* does not abort merge_split_tables and it is part of no MergedTable.
C15_EmptyFragmentSkipped ==
    /\ (EmptyFrags # {}) => st_pc # "raised"
    /\ (st_pc = "done" /\ restitch_input = None) =>
          \A i \in 1..Len(EmittedFrags) : EmittedFrags[i] \notin EmptyFrags

\* C19: stitcher idempotence: merge_split_tables run on a single, already
\* merged MergedTable and no further fragments returns exactly that one
\* table, its rows, cells and row_ids unchanged.
C19_RestitchIsIdentity ==
    (st_pc = "done" /\ restitch_input # None /\ AllFrags # <<>>) =>
        /\ Len(merged_tables) = 1
        /\ merged_tables[1] = restitch_input
        /\ merged_tables[1].rows = restitch_input.rows
        /\ merged_tables[1].cells = restitch_input.cells

\* C19 witness: a table made of two fragments, row_ids renumbered by the
\* merge, went through a second call
C19_Witness ==
    /\ st_pc = "done"
    /\ restitch_input # None
    /\ Len(restitch_input.frags) = 2
    /\ MaxRowId(restitch_input.cells) >= 2
    /\ AllFrags = <<restitch_input>>
    /\ merged_tables = <<restitch_input>>

\* ------------------------------------------- process_document: run claims
\* the stage process_document started last
LastStage == stages_run[Len(stages_run)]

\* C16 (as claimed): if the input cannot be read or layout detection fails,
\* process_document ends with the error, no later stage runs and no
\* tables.json is written; a dropped OCR page or a failed refinement does
\* not end the run before tables.json is written.
C16_OnlyFatalFailuresAbort ==
    /\ (doc_pc = "raised" /\ LastStage.stage \in {"read", "layout"}) =>
          /\ tables_json = <<>>
          /\ reports = <<>>
          /\ \A i \in 1..Len(stages_run) : stages_run[i].stage \in {"read", "layout"}
    /\ (doc_pc = "raised" /\ LastStage.stage = "ocr") => LastStage.dropped = 0
    /\ doc_pc = "raised" => LastStage.stage # "refine"

\* the stage a predictor belongs to
StageOfModel(m) ==
    CASE m = "layout_predictor"    -> "layout"
      [] m = "table_rec_predictor" -> "tables"
      [] OTHER                     -> "ocr"

\* the stages that have returned
StagesCompleted ==
    {stages_run[i].stage :
        i \in {j \in 1..Len(stages_run) : j < Len(stages_run) \/ doc_pc # "raised"}}

\* C17 (as claimed): at every point of a run at most one stage's models are
\* resident, and the models of a stage that has completed (layout, table
\* structure, OCR) are no longer resident.
C17_OneStageResident ==
    /\ Cardinality({StageOfModel(m) : m \in resident}) <= 1
    /\ \A m \in resident : StageOfModel(m) \notin StagesCompleted

\* C18 (as claimed): at the end of a run the pipeline reports a count of the
\* tables that fell back to unrefined form, equal to the number of
\* gemini_refine calls that took the fallback path.
C18_FallbackCountReported ==
    doc_pc = "written" =>
        \E i \in 1..Len(reports) :
            /\ "fell_back" \in DOMAIN reports[i]
            /\ reports[i].fell_back = fallbacks

\* ------------------------------------------- stitcher: geometry claims
\* the layout of the page (0-based) a fragment lies on
LayoutOfPage(p) == layout_predictions[p + 1]

\* the page of the fragment the accumulator's last row comes from
LastPageOf(acc) == AllFrags[acc.frags[Len(acc.frags)]].page

\* C21 (as claimed): a non-Table region lying between the accumulator's last
\* row and the candidate's first row blocks the merge whether it was detected
\* on the accumulator's page or on the candidate's page.
C21_RegionsOfEveryPageBlock ==
    [][(CandidateStep /\ restitch_input = None) =>
        LET bottom == LastRowBottom(current_table)
            top    == FirstRowTop(LastFrag')
        IN  (\/ RegionBetween(bottom, top, LayoutOfPage(LastPageOf(current_table)))
             \/ RegionBetween(bottom, top, LayoutOfPage(LastFrag'.page)))
                => /\ merged_tables' = Append(merged_tables, current_table)
                   /\ current_table' = LastFrag']_vars

\* ------------------------------------------------- refiner input: claims
\* the OCR lines (page, line) whose box lies in box, boundaries included
LinesInside(box) ==
    UNION {{<<p, i>> : i \in {j \in 1..Len(ocr_predictions[p].text_lines) :
                LET b == ocr_predictions[p].text_lines[j].bbox
                IN  b[1] >= box[1] /\ b[2] >= box[2] /\ b[3] <= box[3] /\ b[4] <= box[4]}} :
           p \in 1..Len(ocr_predictions)}

\* page order, then line order
Before(a, b) == a[1] < b[1] \/ (a[1] = b[1] /\ a[2] < b[2])

\* the text of the n first of those lines, each but the first after a newline
RECURSIVE TextOfFirst(_, _)
TextOfFirst(box, n) ==
    IF n = 0 THEN ""
    ELSE LET pl == CHOOSE x \in LinesInside(box) :
                       Cardinality({y \in LinesInside(box) : Before(y, x)}) = n - 1
             text == ocr_predictions[pl[1]].text_lines[pl[2]].text
         IN  IF n = 1 THEN text ELSE TextOfFirst(box, n - 1) \o "\n" \o text

\* the newline-joined text of the OCR lines inside box
TextInside(box) == TextOfFirst(box, Cardinality(LinesInside(box)))

\* C22: the OCR text passed to the refiner for a table is the newline-joined
\* text, in page order and then line order, of exactly the OCR lines whose
\* box is contained in the table's box on all four edges, boundaries
\* inclusive; a line that sticks out on one edge is excluded.
C22_OcrTextIsContainedLines ==
    (RefineReturned /\ LastStage.stage = "refine") =>
        ocr_text = TextInside(TableData.bbox)

\* C22 witness: lines of two pages, among them one on the boundary and one
\* sticking out on each edge, were selected for the box (0, 40, 100, 100)
C22_Witness ==
    /\ RefineReturned
    /\ LastStage.stage = "refine"
    /\ TableData = PlainTable
    /\ ocr_predictions = <<OcrPage1, OcrPage2>>
    /\ ocr_text = "in\nedge\np2"

\* C23: whenever the candidate's first-row top edge is not below the
\* accumulator's last-row bottom edge (gap <= 0), the candidate is merged,
\* whatever non-Table layout regions the page has.
C23_NonPositiveGapAlwaysMerges ==
    [][(CandidateStep /\ FirstRowTop(LastFrag') <= LastRowBottom(current_table)) =>
        /\ st_pc' = "loop"
        /\ merged_tables' = merged_tables
        /\ current_table'.frags = current_table.frags \o LastFrag'.frags
        /\ current_table'.rows = current_table.rows \o LastFrag'.rows]_vars

\* C23 witness: a fragment starting at y=40 was merged into an accumulator
\* ending at y=200, on a page with a Text region at y 105..125
C23_Witness ==
    /\ st_pc = "loop"
    /\ restitch_input = None
    /\ Len(current_table.frags) = 2
    /\ \E i \in 1..(Len(current_table.rows) - 1) :
          current_table.rows[i][4] = 200 /\ current_table.rows[i + 1][2] = 40
    /\ layout_predictions[Len(layout_predictions)] = {TextBetween125}
    /\ LastFrag.page = 1

\* --------------------------------------------- merged tables: frame claim
\* the fragment numbered id as the table detector reported it
DocFragment(id) == CHOOSE t \in {PlainTable, ShuffledTable, DataTable} : t.frags = <<id>>

\* the first fragment of a MergedTable
FirstFragment(table) == DocFragment(table.frags[1])

\* C24: a merge leaves the accumulator's bbox and page (and the rows and
\* cells it already had) unchanged, so a MergedTable keeps the box and page
\* of its first fragment, the emitted "page" is the first fragment's page,
\* and the OCR lines are selected against the first fragment's box only.
C24_MergedTableKeepsFirstBoxAndPage ==
    /\ \A k \in 1..Len(merged_tables) :
          LET table == merged_tables[k]
              first == FirstFragment(table)
          IN  /\ table.bbox = first.bbox
              /\ table.page = first.page
              /\ SubSeq(table.rows, 1, Len(first.rows)) = first.rows
              /\ SubSeq(table.cells, 1, Len(first.cells)) = first.cells
              /\ k <= Len(output_tables) => output_tables[k].page = first.page
    /\ (RefineReturned /\ LastStage.stage = "refine") =>
          ocr_text = TextInside(FirstFragment(TableData).bbox)

\* C24 witness: a table made of a page-0 and a page-1 fragment was handed to
\* the refiner with the lines of the first fragment's box and emitted with
\* page 0, a line inside the second fragment's box left out
C24_Witness ==
    /\ doc_pc = "loop"
    /\ table_idx = 1
    /\ merged_tables[1] = StitchedTable
    /\ Len(merged_tables[1].frags) = 2
    /\ ocr_predictions = <<OcrPage1, OcrPage2>>
    /\ ocr_text = "in\nedge\np2"
    /\ output_tables[1].page = 0

\* ------------------------------------------------ Gemini scripts: model
\* gemini.py, gemini2.py and gemini3.py: the functions that upload a PDF to the
\* Gemini File API, ask the model about it and delete the upload
GeminiFunctions ==
    {"gemini3.get_table_page_ranges", "gemini3.extract_table_from_pdf",
     "gemini2.extract_table_from_pdf", "gemini.extract_table_from_pdf"}

\* what generate_content can return: no candidates, a candidate without parts
\* (a blocked reply), a reply whose text is JSON, a reply whose text is not
GeminiResponses ==
    {[candidates |-> FALSE, parts |-> FALSE, json |-> FALSE, bound |-> TRUE],
     [candidates |-> TRUE, parts |-> FALSE, json |-> FALSE, bound |-> TRUE],
     [candidates |-> TRUE, parts |-> TRUE, json |-> TRUE, bound |-> TRUE],
     [candidates |-> TRUE, parts |-> TRUE, json |-> FALSE, bound |-> TRUE]}

\* gemini3.py lines 72, 194 and gemini2.py line 73 test the candidates;
\* gemini.py goes from generate_content to json.loads at once
HasValidityCheck(fn) == fn # "gemini.extract_table_from_pdf"

\* if not response.candidates or not response.candidates[0].content.parts
NoValidContent(r) == ~r.candidates \/ ~r.parts

\* an exception that leaves the try block were there no finally clause
PropagateNoFinally(exc) == [pc |-> "done", pending |-> "", outcome |-> exc]

\* an exception leaving the try block runs the finally clause first
Propagate(exc) == [pc |-> "finally", pending |-> exc, outcome |-> ""]

\* a script calls one of the functions
CallFunction ==
    /\ gem_pc \in {"idle", "done"}
    /\ gem_calls < MaxGeminiCalls
    /\ gem_calls' = gem_calls + 1
    /\ gem_fn' \in GeminiFunctions
    /\ pdf_is_file' \in BOOLEAN
    /\ gem_pc' = "check"
    /\ uploaded_file' = 0
    /\ gem_response' = NoGeminiResponse
    /\ pending' = ""
    /\ gem_outcome' = ""
    /\ api_calls' = <<>>
    /\ UNCHANGED file_api
    /\ UNCHANGED notGemini

\* if not Path(pdf_path).is_file(): raise FileNotFoundError
CheckIsFile ==
    /\ gem_pc = "check"
    /\ IF pdf_is_file
          THEN /\ gem_pc' = "upload"
               /\ UNCHANGED gem_outcome
          ELSE /\ gem_pc' = "done"
               /\ gem_outcome' = "FileNotFoundError"
    /\ UNCHANGED <<gem_fn, pdf_is_file, uploaded_file, gem_response, pending,
                   api_calls, file_api, gem_calls>>
    /\ UNCHANGED notGemini

\* uploaded_file = genai.upload_file(...): outside the try block, so a
\* failed upload leaves the function at once
UploadFile ==
    /\ gem_pc = "upload"
    /\ api_calls' = Append(api_calls, "upload_file")
    /\ \/ /\ uploaded_file' = gem_calls
          /\ file_api' = file_api \cup {gem_calls}
          /\ gem_pc' = "generate"
          /\ UNCHANGED gem_outcome
       \/ /\ gem_pc' = "done"
          /\ gem_outcome' = "UploadError"
          /\ UNCHANGED <<uploaded_file, file_api>>
    /\ UNCHANGED <<gem_fn, pdf_is_file, gem_response, pending, gem_calls>>
    /\ UNCHANGED notGemini

\* response = model.generate_content([prompt, uploaded_file]), first
\* statement of the try block
GenerateContent ==
    /\ gem_pc = "generate"
    /\ api_calls' = Append(api_calls, "generate_content")
    /\ \/ \E r \in GeminiResponses :
             /\ gem_response' = r
             /\ gem_pc' = IF HasValidityCheck(gem_fn) THEN "validate" ELSE "parse"
             /\ UNCHANGED <<pending, gem_outcome>>
       \/ LET u == Propagate("GenerationError")
          IN  /\ gem_pc' = u.pc
              /\ pending' = u.pending
              /\ gem_outcome' = u.outcome
              /\ UNCHANGED gem_response
    /\ UNCHANGED <<gem_fn, pdf_is_file, uploaded_file, file_api, gem_calls>>
    /\ UNCHANGED notGemini

\* the finish_reason test: raise ValueError("No valid content returned...")
CheckCandidates ==
    /\ gem_pc = "validate"
    /\ IF NoValidContent(gem_response)
          THEN LET u == Propagate("ValueError")
               IN  /\ gem_pc' = u.pc
                   /\ pending' = u.pending
                   /\ gem_outcome' = u.outcome
          ELSE /\ gem_pc' = "parse"
               /\ UNCHANGED <<pending, gem_outcome>>
    /\ UNCHANGED <<gem_fn, pdf_is_file, uploaded_file, gem_response, api_calls,
                   file_api, gem_calls>>
    /\ UNCHANGED notGemini

\* return json.loads(response.text) in the inner try: response.text raises
\* ValueError when the reply has no parts, json.loads raises JSONDecodeError;
\* a return runs the finally clause as well
LoadsText ==
    /\ gem_pc = "parse"
    /\ IF NoValidContent(gem_response)
          THEN /\ gem_pc' = "handler"
               /\ pending' = "ValueError"
          ELSE IF gem_response.json
          THEN /\ gem_pc' = "finally"
               /\ pending' = ""
          ELSE /\ gem_pc' = "handler"
               /\ pending' = "JSONDecodeError"
    /\ UNCHANGED <<gem_fn, pdf_is_file, uploaded_file, gem_response, gem_outcome,
                   api_calls, file_api, gem_calls>>
    /\ UNCHANGED notGemini

\* except Exception as e: print(...); raise. print(response.text) raises the
\* ValueError again when the reply has no parts
ReRaise ==
    /\ gem_pc = "handler"
    /\ LET u == Propagate(pending)
       IN  /\ gem_pc' = u.pc
           /\ pending' = u.pending
           /\ gem_outcome' = u.outcome
    /\ UNCHANGED <<gem_fn, pdf_is_file, uploaded_file, gem_response, api_calls,
                   file_api, gem_calls>>
    /\ UNCHANGED notGemini

\* finally: genai.delete_file(uploaded_file.name); the call can fail, and its
\* exception then replaces the one on its way out
DeleteFile ==
    /\ gem_pc = "finally"
    /\ api_calls' = Append(api_calls, "delete_file")
    /\ gem_pc' = "done"
    /\ pending' = ""
    /\ \/ /\ file_api' = file_api \ {uploaded_file}
          /\ gem_outcome' = IF pending = "" THEN "returned" ELSE pending
       \/ /\ gem_outcome' = "DeleteError"
          /\ UNCHANGED file_api
    /\ UNCHANGED <<gem_fn, pdf_is_file, uploaded_file, gem_response, gem_calls>>
    /\ UNCHANGED notGemini

InitGemini ==
    /\ StitchIdle
    /\ OcrIdle
    /\ DocIdle
    /\ ScriptsIdle

NextGemini ==
    \/ CallFunction \/ CheckIsFile \/ UploadFile \/ GenerateContent
    \/ CheckCandidates \/ LoadsText \/ ReRaise \/ DeleteFile

SpecGemini == InitGemini /\ [][NextGemini]_vars

\* ----------------------------------------------- Gemini scripts: claim
\* how often the call under way asked the File API for `name`
CallsOf(name) == Cardinality({i \in 1..Len(api_calls) : api_calls[i] = name})

\* C26: once the upload has succeeded, delete_file is called exactly once on
\* every way out of the function (parsed reply, generation error, ValueError
\* for an empty or blocked reply, JSON parse error), as the last genai call,
\* and the File API no longer holds the upload unless that call itself
\* failed; when the local PDF does not exist the function ends with
\* FileNotFoundError without any upload, generation or delete.
C26_UploadDeletedOnceOnEveryExit ==
    /\ CallsOf("delete_file") <= 1
    /\ gem_pc = "done" =>
          /\ ~pdf_is_file => (gem_outcome = "FileNotFoundError" /\ api_calls = <<>>)
          /\ uploaded_file = 0 => CallsOf("delete_file") = 0
          /\ uploaded_file # 0 =>
                /\ gem_outcome \in {"returned", "GenerationError", "ValueError",
                                "JSONDecodeError", "DeleteError"}
                /\ CallsOf("delete_file") = 1
                /\ api_calls[Len(api_calls)] = "delete_file"
                /\ gem_outcome # "DeleteError" => uploaded_file \notin file_api

\* C26 witness: get_table_page_ranges of gemini3.py got a reply that is not
\* JSON; the JSONDecodeError left the function after the one delete
C26_Witness ==
    /\ gem_pc = "done"
    /\ gem_fn = "gemini3.get_table_page_ranges"
    /\ gem_outcome = "JSONDecodeError"
    /\ api_calls = <<"upload_file", "generate_content", "delete_file">>
    /\ file_api = {}

\* ------------------------------------------- library extractors: model
\* using_pdfplumber.py and using_camelot.py: extract_table_from_pdf
Extractors == {"pdfplumber", "camelot"}

\* the last serial number seen, 0 when there is none
LastSerial(sns) == IF sns = <<>> THEN 0 ELSE sns[Len(sns)]

\* what a row holds under 'S.No' / 'Serial': nothing or no digits (0), the
\* number after the last one, or a number that skips one
SerialChoices(last) == {0, last + 1, last + 2}

\* the serial cells of the n data rows of one table
RECURSIVE RowSerials(_, _)
RowSerials(n, last) ==
    IF n = 0 THEN {<<>>}
    ELSE UNION {{<<v>> \o t : t \in RowSerials(n - 1, IF v = 0 THEN last ELSE v)} :
                   v \in SerialChoices(last)}

\* row_dict = {header: value for header, value in zip(headers, cleaned_row)},
\* told apart by its place among the rows built
RowDicts(serials, page, first) ==
    [i \in 1..Len(serials) |-> [id |-> first + i, page |-> page, sn |-> serials[i]]]

\* if sn_value.isdigit(): serial_numbers.append(int(sn_value))
RECURSIVE Digits(_)
Digits(serials) ==
    IF serials = <<>> THEN <<>>
    ELSE (IF serials[1] = 0 THEN <<>> ELSE <<serials[1]>>) \o Digits(Tail(serials))

\* all(serial_numbers[i] + 1 == serial_numbers[i + 1] for i in range(len - 1))
IsContinuous(sns) == \A i \in 1..(Len(sns) - 1) : sns[i] + 1 = sns[i + 1]

\* merged_table.extend(table_data["table"]) over all_tables
RECURSIVE MergedTable(_)
MergedTable(tabs) ==
    IF tabs = <<>> THEN <<>> ELSE tabs[1].table \o MergedTable(Tail(tabs))

\* using_pdfplumber.py lines 75-99, using_camelot.py lines 116-140: the
\* continuity test, the merge, and the choice of the returned structure
ReturnValue(tabs, sns, single) ==
    LET checked == sns # <<>> /\ single
        merge == checked /\ IsContinuous(sns) /\ Len(tabs) > 1
        tabs2 == IF merge THEN <<[page |-> 1, table |-> MergedTable(tabs)]>> ELSE tabs
        single2 == IF checked /\ ~IsContinuous(sns) THEN FALSE ELSE single
    IN  IF single2 /\ tabs2 # <<>>
           THEN [flat |-> TRUE, rows |-> tabs2[1].table, tables |-> <<>>]
           ELSE [flat |-> FALSE, rows |-> <<>>, tables |-> tabs2]

\* extract_table_from_pdf(pdf_path) is called on an existing PDF
InitExtract ==
    /\ StitchIdle
    /\ OcrIdle
    /\ DocIdle
    /\ GeminiIdle
    /\ ex_pc = "page"
    /\ extractor \in Extractors
    /\ num_pages \in 0..MaxPdfPages
    /\ page_num = 0
    /\ page_tables = 0
    /\ table_no = 0
    /\ all_tables = <<>>
    /\ serial_numbers = <<>>
    /\ has_single_table = TRUE
    /\ returned = NoReturn
    /\ built = <<>>

\* the loop reaches the next page: tables = page.extract_tables(), or the
\* tables camelot reports for that page; a page without tables is passed over
NextPdfPage ==
    /\ ex_pc = "page"
    /\ page_num < num_pages
    /\ page_num' = page_num + 1
    /\ \E n \in 0..MaxPageTables :
          /\ page_tables' = n
          /\ ex_pc' = IF n = 0 THEN "page" ELSE "table"
    /\ table_no' = 0
    /\ UNCHANGED <<extractor, num_pages, all_tables, serial_numbers, has_single_table,
                   returned, built>>
    /\ UNCHANGED notExtract

\* one table of the page: its rows become row dicts, its digits join
\* serial_numbers, a table with rows joins all_tables. camelot tests for a
\* second table of the same page after every table that passed
\* is_valid_table, pdfplumber tests len(tables) > 1 once the page is done
ProcessTable ==
    /\ ex_pc = "table"
    /\ table_no' = table_no + 1
    /\ ex_pc' = IF table_no + 1 = page_tables THEN "page" ELSE "table"
    /\ \E n \in 0..MaxTableRows, valid \in BOOLEAN :
          /\ (extractor = "pdfplumber" \/ n > 0) => valid
          /\ \E serials \in RowSerials(IF valid THEN n ELSE 0, LastSerial(serial_numbers)) :
                LET processed_table == RowDicts(serials, page_num, Len(built))
                IN  /\ built' = built \o processed_table
                    /\ serial_numbers' = serial_numbers \o Digits(serials)
                    /\ all_tables' =
                          IF processed_table # <<>>
                             THEN Append(all_tables,
                                         [page |-> page_num, table |-> processed_table])
                             ELSE all_tables
          /\ has_single_table' =
                IF extractor = "camelot"
                   THEN (IF valid /\ page_tables > 1 THEN FALSE ELSE has_single_table)
                   ELSE (IF table_no + 1 = page_tables /\ page_tables > 1
                            THEN FALSE ELSE has_single_table)
    /\ UNCHANGED <<extractor, num_pages, page_num, page_tables, returned>>
    /\ UNCHANGED notExtract

\* the loops are over: the tail of the function chooses what to return
ReturnTables ==
    /\ ex_pc = "page"
    /\ page_num = num_pages
    /\ returned' = ReturnValue(all_tables, serial_numbers, has_single_table)
    /\ ex_pc' = "returned"
    /\ UNCHANGED <<extractor, num_pages, page_num, page_tables, table_no, all_tables,
                   serial_numbers, has_single_table, built>>
    /\ UNCHANGED notExtract

NextExtract == NextPdfPage \/ ProcessTable \/ ReturnTables

SpecExtract == InitExtract /\ [][NextExtract]_vars

\* ------------------------------------------- library extractors: claim
\* the row dicts of the returned value, in the order they stand in it
ReturnedRows == IF returned.flat THEN returned.rows ELSE MergedTable(returned.tables)

\* C27: the extractors lose no extracted row: every row dict built from any
\* table of any page is in the returned value, in page order, in the flat
\* list or in the page-wise list.
C27_NoRowLost == ex_pc = "returned" => ReturnedRows = built

\* ------------------------------------------------- repeated calls: claim
\* C25 (amended): a pipeline object completes at most one process_document
\* run: the predictors unloaded by a run are never reloaded, and a call made
\* once the layout predictor is unloaded (line 80) fails at layout detection,
\* before table detection, OCR or any write of tables.json.
C25_AtMostOneCompletedRun ==
    /\ [](completed <= 1)
    /\ [][/\ resident' \subseteq resident
          /\ (doc_pc = "layout" /\ "layout_predictor" \notin resident) =>
                /\ doc_pc' = "raised"
                /\ tables_json' = <<>>
                /\ \A i \in 1..Len(stages_run') : stages_run'[i].stage \in {"read", "layout"}]_vars

\* C25 as stated: whatever the first call did, a second call on the same
\* object gets no further than layout detection.
C25_AnySecondCallFailsAtLayout ==
    calls >= 2 =>
        /\ doc_pc \in {"start", "layout", "raised"}
        /\ \A i \in 1..Len(stages_run) : stages_run[i].stage \in {"read", "layout"}

\* C25 witness: after a completed run a second call on the same object has
\* failed at layout detection
C25_Witness ==
    /\ calls = 2
    /\ completed = 1
    /\ doc_pc = "raised"
    /\ Len(stages_run) = 2
    /\ LastStage.stage = "layout"
    /\ resident = {"det_predictor_gpu", "rec_predictor_gpu"}

====
